---- MODULE Spec2Model ----
(***************************************************************************)
(* The cutting-stock engine of stock.py (class CuttingStockSolver): the    *)
(* pattern set, the column-generation loop of optimize(), the integer      *)
(* master and the post-processing of its answer.                           *)
(*                                                                         *)
(* Numbers are exact: a dual vector is a vector of integer numerators over *)
(* one positive denominator, so every comparison the code makes on floats  *)
(* is made here on rationals.  The LP/MILP library (PuLP + CBC) is         *)
(* modelled by its contract: an optimal LP gives an optimal basic dual     *)
(* solution, an optimal knapsack / integer master gives an optimal integer *)
(* point.  Which optimum is returned among several is the solver's         *)
(* business; it is fixed per behaviour by the variable solver.  The code   *)
(* never reads a solve's status before using its numbers, so the answer to *)
(* an infeasible problem is whatever the solver left behind: nothing in    *)
(* stock.py determines it, and it is a nondeterministic choice among       *)
(* bounded values (JunkDuals, JunkUsage).                                  *)
(***************************************************************************)
EXTENDS Integers, Sequences, FiniteSets, TLC

VARIABLES
    stock_lengths,   \* self.stock_lengths: <<[length, price]>>, lengths in inches
    required_cuts,   \* self.required_cuts: <<[length, quantity]>>
    patterns,        \* self.patterns: a sequence of count vectors
    pattern_costs,   \* self.pattern_costs: the price of each pattern's stock
    theoretical_minimums, \* self.theoretical_minimums
    iteration,       \* optimize(): the local iteration
    dual_values,     \* optimize(): the duals of the last master solve
    reduced_cost,    \* optimize(): the best reduced cost of the last pricing
    pc,              \* where optimize() stands
    result,          \* what optimize() returned last
    first_result,    \* what the first of two calls returned
    calls,           \* how many times optimize() was entered on these inputs
    seed_base,       \* Len(patterns) when the current optimize() was entered
    seed_count,      \* how many patterns the current call's seeding appended
    solver,          \* the behaviour of the LP/MILP library in this run
    pattern_usage    \* optimize(): the values of the integer master's variables

vars == <<stock_lengths, required_cuts, patterns, pattern_costs,
          theoretical_minimums, iteration, dual_values, reduced_cost, pc,
          result, first_result, calls, seed_base, seed_count, solver,
          pattern_usage>>

(***************************************************************************)
(* Bounds of the checked instances.                                        *)
(***************************************************************************)
MaxFeet == 2
MaxPrice == 2
MaxQty == 2
JunkDual == 1
JunkUsageMax == 1

\* How many rows the two CSV tables may hold.
StockCounts == 1..2
CutCounts == 1..2
\* The LEN values of the parts table, in inches: pieces that combine on a
\* board (5, 8) and pieces as long as a board (12, 24); a 24 inch piece is
\* longer than every stock of a prices table that holds 1 ft boards only.
CutLengths == {5, 8, 12, 24}

(***************************************************************************)
(* Program constants.                                                      *)
(***************************************************************************)
InchesPerFoot == 12
max_iterations == 100
EpsilonInverse == 1000000

NoDuals == [num |-> <<>>, den |-> 1]
NoResult == [status |-> "none"]

(***************************************************************************)
(* Arithmetic helpers.                                                     *)
(***************************************************************************)
RECURSIVE SumTo(_, _)
\* sum(f[k] for k in 1..n)
SumTo(f, n) == IF n = 0 THEN 0 ELSE f[n] + SumTo(f, n - 1)

Dot(a, b) == SumTo([k \in 1..Len(a) |-> a[k] * b[k]], Len(a))

Abs(x) == IF x < 0 THEN -x ELSE x

RECURSIVE Gcd(_, _)
Gcd(a, b) == IF b = 0 THEN a ELSE Gcd(b, a % b)

RECURSIVE GcdSeq(_, _)
GcdSeq(s, n) == IF n = 0 THEN 0 ELSE Gcd(Abs(s[n]), GcdSeq(s, n - 1))

\* The rational vector num/den in lowest terms with a positive denominator.
Normalize(num, den) ==
    LET sgn == IF den < 0 THEN -1 ELSE 1
        g == Gcd(Abs(den), GcdSeq(num, Len(num)))
    IN  [num |-> [k \in 1..Len(num) |-> (sgn * num[k]) \div g],
         den |-> (sgn * den) \div g]

\* Lexicographic order on integer vectors of one length.
LexLess(a, b) ==
    \E k \in 1..Len(a) :
        /\ a[k] < b[k]
        /\ \A j \in 1..(k - 1) : a[j] = b[j]

\* Lexicographic order on rational vectors.
RatLexLess(a, b) ==
    \E k \in 1..Len(a.num) :
        /\ a.num[k] * b.den < b.num[k] * a.den
        /\ \A j \in 1..(k - 1) : a.num[j] * b.den = b.num[j] * a.den

\* Which of several equally good integer points the solver returns.
PickPoint(S) ==
    IF solver.tie = "first"
    THEN CHOOSE x \in S : \A y \in S : y = x \/ LexLess(x, y)
    ELSE CHOOSE x \in S : \A y \in S : y = x \/ LexLess(y, x)

\* Which of several optimal dual vertices the solver returns.
PickDuals(S) ==
    IF solver.tie = "first"
    THEN CHOOSE x \in S : \A y \in S : y = x \/ RatLexLess(x, y)
    ELSE CHOOSE x \in S : \A y \in S : y = x \/ RatLexLess(y, x)

NCuts == Len(required_cuts)
NStocks == Len(stock_lengths)
CutIdx == 1..NCuts
ZeroPattern == [i \in CutIdx |-> 0]

(***************************************************************************)
(* __init__: the two tables.                                               *)
(***************************************************************************)
\* A prices row (length in feet) as __init__ stores it.
StockOf(feet, price) == [length |-> feet * InchesPerFoot, price |-> price]

StockRows == {StockOf(f, p) : f \in 1..MaxFeet, p \in 1..MaxPrice}
CutRows == {[length |-> l, quantity |-> q] : l \in CutLengths, q \in 1..MaxQty}

StockTables == UNION {[1..n -> StockRows] : n \in StockCounts}
CutTables == UNION {[1..n -> CutRows] : n \in CutCounts}

\* calculate_theoretical_minimums: the demanded length and the cheapest
\* price per inch, kept as the exact fraction price / length of the first
\* stock that attains the minimum (min() returns the first minimum).
TotalLengthNeeded(cuts) ==
    SumTo([k \in 1..Len(cuts) |-> cuts[k].length * cuts[k].quantity], Len(cuts))

MostEfficient(stocks) ==
    LET best == CHOOSE s \in 1..Len(stocks) :
                  /\ \A t \in 1..Len(stocks) :
                        stocks[s].price * stocks[t].length
                            <= stocks[t].price * stocks[s].length
                  /\ \A t \in 1..(s - 1) :
                        stocks[t].price * stocks[s].length
                            # stocks[s].price * stocks[t].length
    IN  stocks[best]

RECURSIVE SortedCopies(_, _)
\* all_cuts after sort(reverse=True): left[i] copies of every cut i, the
\* longest first.
SortedCopies(cuts, left) ==
    LET open == {i \in 1..Len(cuts) : left[i] > 0}
    IN  IF open = {} THEN <<>>
        ELSE LET i == CHOOSE k \in open :
                        \A j \in open : cuts[j].length <= cuts[k].length
             IN  <<cuts[i].length>>
                 \o SortedCopies(cuts, [left EXCEPT ![i] = @ - 1])

RECURSIVE FirstFit(_, _, _, _)
\* The while loop over remaining_cuts, then the remnant of the open board.
FirstFit(remaining, max_board_length, current_board, total_min_waste) ==
    IF remaining = <<>>
    THEN IF current_board > 0 THEN total_min_waste + current_board
         ELSE total_min_waste
    ELSE LET fresh == current_board < Head(remaining)
         IN  FirstFit(Tail(remaining), max_board_length,
                      (IF fresh THEN max_board_length ELSE current_board)
                          - Head(remaining),
                      IF fresh THEN total_min_waste + current_board
                      ELSE total_min_waste)

MinTheoreticalWaste(stocks, cuts) ==
    LET max_board_length == CHOOSE l \in {stocks[s].length : s \in 1..Len(stocks)} :
                               \A s \in 1..Len(stocks) : stocks[s].length <= l
    IN  FirstFit(SortedCopies(cuts, [i \in 1..Len(cuts) |-> cuts[i].quantity]),
                 max_board_length, max_board_length, 0)

calculate_theoretical_minimums(stocks, cuts) ==
    LET eff == MostEfficient(stocks)
    IN  [total_length_needed |-> TotalLengthNeeded(cuts),
         \* min_theoretical_cost = cost_num / cost_den
         cost_num |-> TotalLengthNeeded(cuts) * eff.price,
         cost_den |-> eff.length,
         min_theoretical_waste |-> MinTheoreticalWaste(stocks, cuts),
         board_length |-> eff.length,
         total_price |-> eff.price]

\* The solver is the same program in every solve of a run: how it breaks a
\* tie between optima is chosen here, once; what it leaves in c.pi when a
\* master is infeasible is not known before the first such solve (junk).
SolverBehaviours == {[tie |-> t, junk |-> NoDuals] : t \in {"first", "last"}}

Init ==
    /\ stock_lengths \in StockTables
    /\ required_cuts \in CutTables
    /\ patterns = <<>>
    /\ pattern_costs = <<>>
    /\ theoretical_minimums
         = calculate_theoretical_minimums(stock_lengths, required_cuts)
    /\ iteration = 0
    /\ dual_values = NoDuals
    /\ reduced_cost = [num |-> 0, den |-> 1]
    /\ pc = "constructed"
    /\ result = NoResult
    /\ first_result = NoResult
    /\ calls = 0
    /\ seed_base = 0
    /\ seed_count = 0
    /\ solver \in SolverBehaviours
    /\ pattern_usage = <<>>

(***************************************************************************)
(* generate_initial_patterns.                                              *)
(***************************************************************************)
\* The pattern the inner loop body builds for (stock, cut i), or none.
num_pieces(stock, cut) == stock.length \div cut.length

\* The test num_pieces >= 0 in place of num_pieces > 0.
SeedFitsOrNot(stock, cut) == num_pieces(stock, cut) >= 0

SeedFits(stock, cut) == num_pieces(stock, cut) > 0

\* The pattern built with one count per cut up to cut i only.
SeedPatternUpToCut(stock, i) ==
    [j \in 1..i |-> IF j = i THEN num_pieces(stock, required_cuts[i]) ELSE 0]

SeedPattern(stock, i) ==
    [j \in CutIdx |-> IF j = i THEN num_pieces(stock, required_cuts[i]) ELSE 0]

RECURSIVE SeedCutsFrom(_, _)
\* The inner loop over the cuts from index i on, for one stock: the
\* sequence of <<pattern, price>> it appends.
SeedCutsFrom(stock, i) ==
    IF i > NCuts THEN <<>>
    ELSE (IF SeedFits(stock, required_cuts[i])
          THEN <<[pattern |-> SeedPattern(stock, i), cost |-> stock.price]>>
          ELSE <<>>)
         \o SeedCutsFrom(stock, i + 1)

RECURSIVE SeedStocksFrom(_)
\* The outer loop over the stocks from index s on.
SeedStocksFrom(s) ==
    IF s > NStocks THEN <<>>
    ELSE SeedCutsFrom(stock_lengths[s], 1) \o SeedStocksFrom(s + 1)

InitialPatterns == SeedStocksFrom(1)

(***************************************************************************)
(* solve_master_problem: the LP master over the current pattern set.  Only *)
(* the duals of the demand constraints are used by the caller.             *)
(*                                                                         *)
(*   minimise  sum_j pattern_costs[j] * x_j                                *)
(*   s.t.      sum_j patterns[j][i] * x_j >= quantity[i]   (dual pi_i)     *)
(*                                                                         *)
(* An optimal basis gives a vertex of the dual polyhedron                  *)
(*   { pi >= 0 : patterns[j] . pi <= pattern_costs[j] for every j }        *)
(* that maximises quantity . pi.                                           *)
(***************************************************************************)
\* The rows of the dual: one per pattern, then one per sign constraint.
DualRows(pats, costs) ==
    [j \in 1..Len(pats) |-> [a |-> pats[j], c |-> costs[j]]]
    \o [i \in CutIdx |-> [a |-> [k \in CutIdx |-> IF k = i THEN -1 ELSE 0], c |-> 0]]

\* M without its first row and its k-th column.
Minor(M, k) ==
    [r \in 1..(Len(M) - 1) |->
        [c \in 1..(Len(M) - 1) |-> IF c < k THEN M[r + 1][c] ELSE M[r + 1][c + 1]]]

RECURSIVE Det(_)
Det(M) ==
    IF Len(M) = 1 THEN M[1][1]
    ELSE SumTo([k \in 1..Len(M) |->
                   (IF k % 2 = 1 THEN 1 ELSE -1) * M[1][k] * Det(Minor(M, k))],
               Len(M))

\* The point where the rows t[1..n] are all tight (Cramer's rule).
TightPoint(t) ==
    LET M == [r \in CutIdx |-> t[r].a]
        d == Det(M)
        Mk(k) == [r \in CutIdx |-> [c \in CutIdx |-> IF c = k THEN t[r].c ELSE t[r].a[c]]]
    IN  Normalize([k \in CutIdx |-> Det(Mk(k))], d)

DualFeasible(v, rows) ==
    \A r \in 1..Len(rows) : Dot(rows[r].a, v.num) <= rows[r].c * v.den

DualVertices(pats, costs) ==
    LET rows == DualRows(pats, costs)
        picks == {t \in [CutIdx -> 1..Len(rows)] :
                    \A k \in 1..(NCuts - 1) : t[k] < t[k + 1]}
        bases == {[r \in CutIdx |-> rows[t[r]]] : t \in picks}
        points == {TightPoint(b) : b \in {t \in bases : Det([r \in CutIdx |-> t[r].a]) # 0}}
    IN  {v \in points : DualFeasible(v, rows)}

Quantities == [i \in CutIdx |-> required_cuts[i].quantity]
Lengths == [i \in CutIdx |-> required_cuts[i].length]

OptimalDuals(pats, costs) ==
    LET V == DualVertices(pats, costs)
    IN  {v \in V : \A w \in V :
            Dot(Quantities, w.num) * v.den <= Dot(Quantities, v.num) * w.den}

\* The master has a solution iff every cut occurs in some pattern.
MasterFeasible(pats) ==
    \A i \in CutIdx : \E j \in 1..Len(pats) : pats[j][i] > 0

\* Cut i can be part of a pattern: a board of some stock option holds it.
\* The dual of any other cut is never used, the knapsack of solve_knapsack
\* cannot take a piece of it.
Priced(i) == \E s \in 1..NStocks : required_cuts[i].length <= stock_lengths[s].length

\* What c.pi may hold after the solve of an infeasible master: any value
\* of 0..JunkDual for every constraint whose dual the pricing uses (the
\* others are written as 0) at the first such solve, and the same values
\* at every later one (the rows that make the master infeasible stay as
\* they are).
JunkDuals ==
    IF solver.junk # NoDuals THEN {solver.junk}
    ELSE {[num |-> v, den |-> 1] :
             v \in {w \in [CutIdx -> 0..JunkDual] : \A i \in CutIdx : Priced(i) \/ w[i] = 0}}

\* The dual vectors the call may return.
solve_master_problem(pats, costs) ==
    IF MasterFeasible(pats)
    THEN {PickDuals(OptimalDuals(pats, costs))}
    ELSE JunkDuals

\* The solver after a master solve that returned duals.
SolverAfter(pats, duals) ==
    IF MasterFeasible(pats) THEN solver ELSE [solver EXCEPT !.junk = duals]

(***************************************************************************)
(* solve_knapsack: maximise dual . x over the integer points that fit the  *)
(* capacity; the pattern and its reduced cost cost - dual . x, the latter  *)
(* as a numerator over the duals' denominator.                             *)
(***************************************************************************)
RECURSIVE MinOf(_)
MinOf(S) == LET x == CHOOSE y \in S : TRUE
            IN  IF S = {x} THEN x
                ELSE LET m == MinOf(S \ {x}) IN IF x < m THEN x ELSE m

RECURSIVE MaxOf(_)
MaxOf(S) == LET x == CHOOSE y \in S : TRUE
            IN  IF S = {x} THEN x
                ELSE LET m == MaxOf(S \ {x}) IN IF x > m THEN x ELSE m

\* The knapsack with the capacity of the longest stock for every stock.
FittingPatternsLongestStock(capacity) ==
    LET longest == MaxOf({stock_lengths[s].length : s \in 1..NStocks})
        most == longest \div MinOf({Lengths[i] : i \in CutIdx})
    IN  {x \in [CutIdx -> 0..most] : Dot(Lengths, x) <= longest}

FittingPatterns(capacity) ==
    LET most == capacity \div MinOf({Lengths[i] : i \in CutIdx})
    IN  {x \in [CutIdx -> 0..most] : Dot(Lengths, x) <= capacity}

KnapsackOptima(dual, capacity) ==
    LET F == FittingPatterns(capacity)
        best == MaxOf({Dot(dual.num, y) : y \in F})
    IN  {x \in F : Dot(dual.num, x) = best}

solve_knapsack(dual, capacity, cost) ==
    LET x == PickPoint(KnapsackOptima(dual, capacity))
    IN  [pattern |-> x,
         reduced_cost |-> cost * dual.den - Dot(dual.num, x)]

(***************************************************************************)
(* solve_subproblem: the knapsack of every stock, in stock order; a later  *)
(* stock replaces the best only when strictly better.                      *)
(***************************************************************************)
RECURSIVE PriceFrom(_, _, _)
PriceFrom(dual, s, best) ==
    IF s > NStocks THEN best
    ELSE LET k == solve_knapsack(dual, stock_lengths[s].length, stock_lengths[s].price)
             cand == [pattern |-> k.pattern, reduced_cost |-> k.reduced_cost,
                      cost |-> stock_lengths[s].price, found |-> TRUE]
         IN  PriceFrom(dual, s + 1,
                       IF ~best.found \/ k.reduced_cost < best.reduced_cost
                       THEN cand ELSE best)

solve_subproblem(dual) ==
    PriceFrom(dual, 1, [pattern |-> <<>>, reduced_cost |-> 0, cost |-> 0,
                        found |-> FALSE])

\* reduced_cost >= -1e-6, for the rational rc.num / rc.den.
NotImproving(rc) == rc.num * EpsilonInverse >= -rc.den

(***************************************************************************)
(* optimize(): seeding and the column-generation loop.                     *)
(***************************************************************************)
\* generate_initial_patterns() at the head of optimize(), on whatever the
\* pattern set holds when optimize() is entered.
EnterOptimize ==
    /\ patterns' = patterns \o [k \in 1..Len(InitialPatterns) |-> InitialPatterns[k].pattern]
    /\ pattern_costs' = pattern_costs \o [k \in 1..Len(InitialPatterns) |-> InitialPatterns[k].cost]
    /\ seed_base' = Len(patterns)
    /\ seed_count' = Len(InitialPatterns)
    /\ iteration' = 0
    /\ calls' = calls + 1
    /\ pc' = "loop"
    /\ pattern_usage' = <<>>
    /\ UNCHANGED <<stock_lengths, required_cuts, theoretical_minimums,
                   dual_values, reduced_cost, result, solver>>

\* The first optimize() on a fresh engine.
Seed ==
    /\ pc = "constructed"
    /\ EnterOptimize
    /\ UNCHANGED first_result

\* The new column put in front of the others.
AppendColumnFront(columns, column) == <<column>> \o columns

\* self.patterns.append(new_pattern) / self.pattern_costs.append(stock_cost)
AppendColumn(columns, column) == Append(columns, column)

\* One pass of the while body with the iteration counted per master solve.
ColumnGenerationCountsSolves ==
    /\ pc = "loop"
    /\ iteration < max_iterations
    /\ \E duals \in solve_master_problem(patterns, pattern_costs) :
         LET sub == solve_subproblem(duals)
             rc == [num |-> sub.reduced_cost, den |-> duals.den]
         IN  /\ dual_values' = duals
             /\ solver' = SolverAfter(patterns, duals)
             /\ reduced_cost' = rc
             /\ iteration' = iteration + 1
             /\ IF NotImproving(rc)
                THEN /\ pc' = "final"
                     /\ UNCHANGED <<patterns, pattern_costs>>
                ELSE /\ patterns' = AppendColumn(patterns, sub.pattern)
                     /\ pattern_costs' = AppendColumn(pattern_costs, sub.cost)
                     /\ pc' = "loop"
    /\ UNCHANGED <<stock_lengths, required_cuts, theoretical_minimums, result,
                   first_result, calls, seed_base, seed_count, pattern_usage>>

\* One pass of the while body: master, pricing, then break or append.
ColumnGeneration ==
    /\ pc = "loop"
    /\ iteration < max_iterations
    /\ \E duals \in solve_master_problem(patterns, pattern_costs) :
         LET sub == solve_subproblem(duals)
             rc == [num |-> sub.reduced_cost, den |-> duals.den]
         IN  /\ dual_values' = duals
             /\ solver' = SolverAfter(patterns, duals)
             /\ reduced_cost' = rc
             /\ IF NotImproving(rc)
                THEN /\ pc' = "final"
                     /\ UNCHANGED <<patterns, pattern_costs, iteration>>
                ELSE /\ patterns' = AppendColumn(patterns, sub.pattern)
                     /\ pattern_costs' = AppendColumn(pattern_costs, sub.cost)
                     /\ iteration' = iteration + 1
                     /\ pc' = "loop"
    /\ UNCHANGED <<stock_lengths, required_cuts, theoretical_minimums, result,
                   first_result, calls, seed_base, seed_count, pattern_usage>>

\* The while condition fails: the cap of max_iterations is reached.
IterationCap ==
    /\ pc = "loop"
    /\ iteration >= max_iterations
    /\ pc' = "final"
    /\ UNCHANGED <<stock_lengths, required_cuts, patterns, pattern_costs,
                   theoretical_minimums, iteration, dual_values, reduced_cost,
                   result, first_result, calls, seed_base, seed_count, solver,
                   pattern_usage>>

(***************************************************************************)
(* optimize(): the integer master over the final pattern set.  Its optima  *)
(* are computed by dynamic programming over the residual demand: the       *)
(* cheapest cover of a residual d buys one board of a pattern that still   *)
(* contributes to d and covers the rest.  Prices are positive, so every    *)
(* optimal integer point is found this way.                                *)
(***************************************************************************)
Residual(d, a) == [i \in CutIdx |-> IF d[i] > a[i] THEN d[i] - a[i] ELSE 0]

Contributes(d, a) == \E i \in CutIdx : d[i] > 0 /\ a[i] > 0

Demands == {d \in [CutIdx -> 0..MaxQty] : \A i \in CutIdx : d[i] <= Quantities[i]}

DemandsAt(k) == {d \in Demands : SumTo(d, NCuts) = k}

\* The entry of residual demand d in a table of optima.
Entry(table, d) == CHOOSE e \in table : e.demand = d

RECURSIVE CoverTable(_, _, _)
\* The optima for every residual demand of total at most k: its cost and
\* the usage vectors that attain it.
CoverTable(pats, costs, k) ==
    IF k = 0
    THEN {[demand |-> ZeroPattern, cost |-> 0,
           usage |-> {[j \in 1..Len(pats) |-> 0]}]}
    ELSE LET below == CoverTable(pats, costs, k - 1)
             Rest(d, j) == Entry(below, Residual(d, pats[j]))
             Via(d, j) == costs[j] + Rest(d, j).cost
             Useful(d) == {j \in 1..Len(pats) : Contributes(d, pats[j])}
             Best(d) == MinOf({Via(d, j) : j \in Useful(d)})
         IN  below \cup
             {[demand |-> d, cost |-> Best(d),
               usage |-> UNION {
                   {[u EXCEPT ![j] = @ + 1] : u \in Rest(d, j).usage}
                   : j \in {jj \in Useful(d) : Via(d, jj) = Best(d)}}]
              : d \in DemandsAt(k)}

\* The pattern_usage vectors the integer master may return.
IntegerOptima(pats, costs) ==
    Entry(CoverTable(pats, costs, SumTo(Quantities, NCuts)), Quantities).usage

\* What the variables may hold after the solve of an infeasible integer
\* master: a value of 0..JunkUsageMax in the first variable and a value of
\* 0..JunkUsageMax in the others.
JunkUsage(pats) ==
    {[j \in 1..Len(pats) |-> IF j = 1 THEN a ELSE b] : a, b \in 0..JunkUsageMax}

MasterUsages(pats, costs) ==
    IF MasterFeasible(pats) THEN IntegerOptima(pats, costs) ELSE JunkUsage(pats)

\* value(prob.objective)
Objective(costs, usage) == Dot(costs, usage)

(***************************************************************************)
(* calculate_waste and format_solution.                                    *)
(***************************************************************************)
\* The lookup with min() in place of max().
StockLengthByPriceShortest(cost) ==
    MinOf({stock_lengths[s].length : s \in {t \in 1..NStocks : stock_lengths[t].price = cost}})

\* max(stock['length'] for stock in stock_lengths if price matches cost)
StockLengthByPrice(cost) ==
    MaxOf({stock_lengths[s].length : s \in {t \in 1..NStocks : stock_lengths[t].price = cost}})

used_length(pattern) == Dot(pattern, Lengths)

RECURSIVE WasteFrom(_, _)
WasteFrom(usage, i) ==
    IF i > Len(usage) THEN 0
    ELSE (IF usage[i] > 0
          THEN (StockLengthByPrice(pattern_costs[i]) - used_length(patterns[i])) * usage[i]
          ELSE 0)
         + WasteFrom(usage, i + 1)

\* The waste of every used pattern counted once, whatever its usage.
calculate_waste_per_pattern(usage) ==
    WasteFrom([i \in 1..Len(usage) |-> IF usage[i] > 0 THEN 1 ELSE 0], 1)

calculate_waste(usage) == WasteFrom(usage, 1)

RECURSIVE FormatFrom(_, _)
FormatFrom(usage, i) ==
    IF i > Len(usage) THEN <<>>
    ELSE (IF usage[i] > 0
          THEN <<[stock_length |-> StockLengthByPrice(pattern_costs[i]),
                  \* cut_details: the count of every cut the pattern holds
                  counts |-> patterns[i],
                  times_used |-> usage[i]]>>
          ELSE <<>>)
         \o FormatFrom(usage, i + 1)

format_solution(usage) == FormatFrom(usage, 1)

\* The integer master, the post-processing and the return of optimize().
IntegerMaster ==
    /\ pc = "final"
    /\ \E usage \in MasterUsages(patterns, pattern_costs) :
          /\ pattern_usage' = usage
          /\ result' = [status |-> IF MasterFeasible(patterns) THEN "Optimal" ELSE "Infeasible",
                        total_cost |-> Objective(pattern_costs, usage),
                        total_waste |-> calculate_waste(usage),
                        cutting_patterns |-> format_solution(usage),
                        iterations |-> iteration,
                        theoretical_minimums |-> theoretical_minimums]
    /\ pc' = "done"
    /\ UNCHANGED <<stock_lengths, required_cuts, patterns, pattern_costs,
                   theoretical_minimums, iteration, dual_values, reduced_cost,
                   first_result, calls, seed_base, seed_count, solver>>

\* A second optimize() on the same engine: the pattern set of the first
\* call is still there and is seeded again.
OptimizeAgain ==
    /\ pc = "done"
    /\ calls = 1
    /\ first_result = NoResult
    /\ first_result' = result
    /\ EnterOptimize

\* A second engine constructed from the same two tables.
FreshEngine ==
    /\ pc = "done"
    /\ calls = 1
    /\ first_result = NoResult
    /\ first_result' = result
    /\ patterns' = <<>>
    /\ pattern_costs' = <<>>
    /\ pc' = "constructed"
    /\ UNCHANGED <<stock_lengths, required_cuts, theoretical_minimums, iteration,
                   dual_values, reduced_cost, result, calls, seed_base,
                   seed_count, solver, pattern_usage>>

Next == Seed \/ ColumnGeneration \/ IterationCap \/ IntegerMaster

\* One engine, one optimize(): what main() runs.
Spec == Init /\ [][Next]_vars

NextTwice == Next \/ OptimizeAgain \/ FreshEngine

\* optimize() run twice on the same inputs.
SpecTwice == Init /\ [][NextTwice]_vars

(***************************************************************************)
(* Properties.                                                             *)
(***************************************************************************)
\* Cut i is longer than every stock option.
TooLong(i) == \A s \in 1..NStocks : stock_lengths[s].length < required_cuts[i].length

HasTooLongCut == \E i \in CutIdx : TooLong(i)

\* How many pieces of cut i a returned plan delivers.
Delivered(plan, i) ==
    SumTo([k \in 1..Len(plan.cutting_patterns) |->
              plan.cutting_patterns[k].counts[i] * plan.cutting_patterns[k].times_used],
          Len(plan.cutting_patterns))

DemandMet(plan) == \A i \in CutIdx : Delivered(plan, i) >= required_cuts[i].quantity

Returned == pc = "done"

\* C1: in every plan optimize() returns, every cut's demand is met by the
\* reported patterns and their reported counts.
C1_DemandMet == Returned => DemandMet(result)

\* C2: at every point of optimize(), every pattern of the pattern set fits a
\* stock option whose price is the pattern's price.
C2_PatternsFit ==
    \A p \in 1..Len(patterns) :
        \E s \in 1..NStocks :
            /\ stock_lengths[s].price = pattern_costs[p]
            /\ Dot(patterns[p], Lengths) <= stock_lengths[s].length

\* A pattern found by pricing that mixes two cuts is in the pattern set.
C2_Witness ==
    /\ pc = "final"
    /\ iteration >= 1
    /\ \E p \in 1..Len(patterns) :
          Cardinality({i \in CutIdx : patterns[p][i] > 0}) >= 2

\* C3: an instance with a cut longer than every stock option is rejected
\* before any LP/MILP solve: the loop is never entered, no master is solved
\* and no plan is returned.
C3_RejectedBeforeAnySolve ==
    HasTooLongCut =>
        /\ dual_values = NoDuals
        /\ pc \notin {"final", "done"}
        /\ result = NoResult

\* No pattern that fits stock s has a reduced cost below -1e-6 against the
\* duals of the last master solve.
NoImprovingPattern(s) ==
    \A x \in [CutIdx -> 0..(stock_lengths[s].length \div MinOf({Lengths[i] : i \in CutIdx}))] :
        Dot(Lengths, x) <= stock_lengths[s].length
        => (stock_lengths[s].price * dual_values.den - Dot(dual_values.num, x))
               * EpsilonInverse >= -dual_values.den

LoopExited == pc \in {"final", "done"}

\* C4: whenever the loop has exited, no stock option yields a pattern with
\* reduced cost below -1e-6 against the last duals.
C4_ExitImpliesNoImprovingPattern ==
    LoopExited => \A s \in 1..NStocks : NoImprovingPattern(s)

\* What holds of the two exits of the loop whatever the solver returned:
\* after the break (fewer than 100 patterns appended) no stock option
\* yields a pattern with reduced cost below -1e-6 against the last duals;
\* after the while condition failed at 100, the last pricing had found a
\* reduced cost below -1e-6.
BreakExitHasNoImprovingPattern ==
    LoopExited =>
        IF iteration < 100
        THEN \A s \in 1..NStocks : NoImprovingPattern(s)
        ELSE reduced_cost.num * EpsilonInverse < -reduced_cost.den

\* The same on the instances where every cut fits a stock option, on which
\* every master is feasible.
ExitHasNoImprovingPatternWhenEveryCutFits ==
    (~HasTooLongCut /\ LoopExited) => \A s \in 1..NStocks : NoImprovingPattern(s)

AppendedAfterSeeding == Len(patterns) - seed_base - seed_count

C5_Safe ==
    /\ iteration <= 100
    /\ pc \in {"loop", "final", "done"} => iteration = AppendedAfterSeeding
    /\ Returned =>
          /\ result.status # "none"
          /\ result.iterations = AppendedAfterSeeding

\* How many steps optimize() has left at most.
C5_StepsLeft ==
    CASE pc = "constructed" -> 103
      [] pc = "loop" -> 102 - iteration
      [] pc = "final" -> 1
      [] OTHER -> 0

C5_Step ==
    /\ C5_StepsLeft' < C5_StepsLeft
    /\ (pc = "loop" /\ iteration = 100) =>
          /\ pc' = "final"
          /\ patterns' = patterns
          /\ iteration' = 100
    /\ pc = "final" =>
          /\ pc' = "done"
          /\ result'.iterations = iteration

\* C5: the loop ends after at most 100 iterations (every step of optimize()
\* brings the return nearer); at the cap, also with a negative reduced cost
\* still on offer, optimize() leaves the loop, goes on to the integer master
\* over the pattern set as it is and returns with iterations = 100; the
\* reported iterations is always the number of patterns appended after
\* seeding.
C5_CapIsNotFatal == []C5_Safe /\ [][C5_Step]_vars

\* optimize() returned after the cap cut the loop short.
C5_Witness ==
    /\ Returned
    /\ result.iterations = 100
    /\ reduced_cost.num < 0

\* C6: total_cost of every returned plan is at least min_theoretical_cost.
C6_CostAtLeastTheoreticalMinimum ==
    Returned =>
        result.total_cost * theoretical_minimums.cost_den
            >= theoretical_minimums.cost_num

\* C7: two runs of optimize() on the same inputs, on a second engine or
\* again on the same one, return the same total cost, and both plans meet
\* every demand.
C7_RepeatableCostAndDemand ==
    (Returned /\ calls = 2) =>
        /\ result.total_cost = first_result.total_cost
        /\ DemandMet(first_result)
        /\ DemandMet(result)

\* Stock option e is exactly as long as the single required cut.
ExactStock(e) ==
    /\ NCuts = 1
    /\ stock_lengths[e].length = required_cuts[1].length

\* The plan is quantity boards of stock option e, and nothing is wasted.
ExactPlan(e) ==
    /\ SumTo([k \in 1..Len(result.cutting_patterns) |->
                 result.cutting_patterns[k].times_used],
             Len(result.cutting_patterns)) = required_cuts[1].quantity
    /\ \A k \in 1..Len(result.cutting_patterns) :
          /\ result.cutting_patterns[k].stock_length = stock_lengths[e].length
          /\ result.cutting_patterns[k].counts[1] = 1
    /\ result.total_cost = required_cuts[1].quantity * stock_lengths[e].price
    /\ result.total_waste = 0

\* C8 as claimed: a single cut as long as some stock option is cut from
\* quantity boards of that stock option, with no waste.
C8_ExactFitUsesQuantityBoards ==
    (Returned /\ \E e \in 1..NStocks : ExactStock(e))
        => \E e \in 1..NStocks : ExactStock(e) /\ ExactPlan(e)

\* Stock option e has a price, and every other stock option costs more per
\* piece of the cut than e does.
CheapestPerPiece(e) ==
    /\ stock_lengths[e].price > 0
    /\ \A s \in 1..NStocks \ {e} :
        (stock_lengths[s].length \div required_cuts[1].length) * stock_lengths[e].price
            < stock_lengths[s].price

\* C8, amended: a single cut as long as a stock option e is cut from
\* quantity boards of e, with no waste, provided e has a positive price and
\* every other stock option costs more per piece of that cut than e (a
\* board of it holds k >= 0 pieces and costs more than k boards of e).
C8_ExactFitWhenCheapestPerPiece ==
    \A e \in 1..NStocks :
        (Returned /\ ExactStock(e) /\ CheapestPerPiece(e)) => ExactPlan(e)

\* Such a plan was returned with a second stock option on offer that holds
\* the cut too, at a higher price per piece.
C8_Witness ==
    /\ Returned
    /\ NStocks = 2
    /\ required_cuts[1].quantity >= 2
    /\ \E e \in 1..NStocks :
          /\ ExactStock(e)
          /\ CheapestPerPiece(e)
          /\ \E s \in 1..NStocks \ {e} :
                stock_lengths[s].length >= required_cuts[1].length

\* The (stock, cut) pairs a board of which holds at least one piece.
FittingPairs ==
    {q \in (1..NStocks) \X CutIdx :
        stock_lengths[q[1]].length \div required_cuts[q[2]].length >= 1}

\* The place of a fitting pair among the fitting pairs, stocks first.
PairRank(q) ==
    Cardinality({r \in FittingPairs : r[1] < q[1] \/ (r[1] = q[1] /\ r[2] <= q[2])})

\* C9: seeding appends one pattern per (stock, cut) pair with
\* floor(stock.length / cut.length) >= 1 and none for any other pair: that
\* many copies of the cut, nothing else, at the stock's price; so when every
\* cut fits a stock, every cut has a seeded pattern and the master over the
\* seeds is feasible.
C9_SeedsAreTheFittingPairs ==
    calls >= 1 =>
        /\ seed_count = Cardinality(FittingPairs)
        /\ \A q \in FittingPairs :
              LET p == seed_base + PairRank(q)
              IN  /\ pattern_costs[p] = stock_lengths[q[1]].price
                  /\ \A i \in CutIdx :
                        patterns[p][i]
                            = IF i = q[2]
                              THEN stock_lengths[q[1]].length \div required_cuts[i].length
                              ELSE 0
        /\ ~HasTooLongCut =>
              \A i \in CutIdx :
                  \E p \in (seed_base + 1)..(seed_base + seed_count) : patterns[p][i] > 0

\* Seeding ran on tables where some pair fits and some pair does not.
C9_Witness ==
    /\ pc = "loop"
    /\ iteration = 0
    /\ seed_count >= 2
    /\ seed_count < NStocks * NCuts
    /\ ~HasTooLongCut

IsPrefix(a, b) == Len(a) <= Len(b) /\ \A k \in 1..Len(a) : a[k] = b[k]

C10_Step ==
    /\ stock_lengths' = stock_lengths
    /\ required_cuts' = required_cuts
    /\ IsPrefix(patterns, patterns')
    /\ IsPrefix(pattern_costs, pattern_costs')
    /\ Len(patterns') = Len(pattern_costs')
    /\ (pc = "loop" /\ pc' = "loop") => Len(patterns') = Len(patterns) + 1
    /\ pc = "loop" => Len(patterns') <= Len(patterns) + 1
    /\ pc \in {"final", "done"} =>
          patterns' = patterns /\ pattern_costs' = pattern_costs

\* C10: the pattern set only grows at its end, by one pattern per pass of
\* the loop that does not exit, and from the exit of the loop on the
\* pattern set, the stock options and the required cuts stay as they are.
C10_AppendOnlyThenFrozen == [][C10_Step]_vars

\* The loop appended to a seeded pattern set and the plan was returned.
C10_Witness ==
    /\ Returned
    /\ iteration >= 1
    /\ seed_count >= 2

\* The longest stock option sold at the price of pattern p.
LongestAtPriceOf(p) ==
    CHOOSE l \in {stock_lengths[s].length : s \in 1..NStocks} :
        /\ \E s \in 1..NStocks :
              stock_lengths[s].price = pattern_costs[p] /\ stock_lengths[s].length = l
        /\ \A s \in 1..NStocks :
              stock_lengths[s].price = pattern_costs[p] => stock_lengths[s].length <= l

\* stockLength - usedLength of pattern p.
WastePerBoard(p) ==
    LongestAtPriceOf(p)
        - SumTo([i \in CutIdx |-> patterns[p][i] * required_cuts[i].length], NCuts)

UsedPatterns == {p \in 1..Len(patterns) : pattern_usage[p] > 0}

\* C11: the total_waste of a returned plan is the sum, over the patterns
\* with positive usage, of (stockLength - usedLength) * usage, where
\* stockLength is the longest stock option at the pattern's price (the
\* stock_length the plan reports for the pattern); the waste per board is
\* never negative, also when stock options share a price.
C11_TotalWasteIsSumOfBoardWaste ==
    Returned =>
        /\ result.total_waste
              = SumTo([p \in 1..Len(patterns) |->
                          IF p \in UsedPatterns
                          THEN WastePerBoard(p) * pattern_usage[p] ELSE 0],
                      Len(patterns))
        /\ \A p \in UsedPatterns : WastePerBoard(p) >= 0
        /\ Len(result.cutting_patterns) = Cardinality(UsedPatterns)
        /\ \A p \in UsedPatterns :
              result.cutting_patterns[Cardinality({q \in UsedPatterns : q <= p})].stock_length
                  = LongestAtPriceOf(p)

\* A plan of two patterns was returned, one of them a pattern that fits a
\* stock option shorter than the longest one at its price, and leaves waste.
C11_Witness ==
    /\ Returned
    /\ ~HasTooLongCut
    /\ Cardinality(UsedPatterns) >= 2
    /\ \E p \in UsedPatterns :
          /\ WastePerBoard(p) > 0
          /\ \E s \in 1..NStocks :
                /\ stock_lengths[s].price = pattern_costs[p]
                /\ stock_lengths[s].length < LongestAtPriceOf(p)
                /\ LongestAtPriceOf(p) - WastePerBoard(p) <= stock_lengths[s].length

\* The stock options whose price is the price of pattern p: what the lookup
\* of calculate_waste and format_solution takes its maximum over.
MatchingStocks(p) == {s \in 1..NStocks : stock_lengths[s].price = pattern_costs[p]}

\* C12: after seeding and after every append of the loop, patterns and
\* pattern_costs have the same length, every pattern holds exactly one
\* count per required cut, and every pattern's price is the price of a
\* stock option, so the lookup of a stock length by price never runs over
\* an empty set.
C12_PatternsAndCostsAligned ==
    /\ Len(patterns) = Len(pattern_costs)
    /\ \A p \in 1..Len(patterns) :
          /\ DOMAIN patterns[p] = 1..Len(required_cuts)
          /\ \A i \in DOMAIN patterns[p] : patterns[p][i] \in Nat
          /\ MatchingStocks(p) # {}

\* The loop appended a pattern to the seeds of two cuts and two stock
\* options of different prices.
C12_Witness ==
    /\ pc = "loop"
    /\ iteration >= 1
    /\ Len(patterns) > seed_count
    /\ NCuts = 2
    /\ \E p, q \in 1..Len(pattern_costs) : pattern_costs[p] # pattern_costs[q]

====
